---- MODULE Spec2Model ----
(***************************************************************************)
(* A model of the request/session reliability layer of pihole-api:         *)
(* the error classifier (errors.ts), the HTTP client with its retry loop   *)
(* (http.ts), the session manager (session.ts) and the client facade       *)
(* (client.ts).                                                            *)
(*                                                                         *)
(* Execution model: the JavaScript event loop.  One action is one task of  *)
(* the event loop run to completion: a call made by user code, the arrival *)
(* of a network answer, or a backoff timer firing, together with every     *)
(* promise continuation that becomes runnable because of it.  Between two  *)
(* actions other calls and answers interleave freely.                      *)
(***************************************************************************)
EXTENDS Integers, Sequences, FiniteSets, TLC

\* ------------------------------------------------------------------ bounds

\* number of logical callers that may have a call outstanding at once
NTasks == 2
\* number of calls user code starts in one behaviour
MaxCalls == 3
\* number of clock ticks in one behaviour
MaxTicks == 1
\* largest maxRetries an HttpClient is configured with explicitly
MaxRetriesCfg == 5

Tasks == 1..NTasks

\* one clock tick, in ms
TickMs == 60 * 1000

\* ------------------------------------------------- JavaScript value helpers

\* an optional value: absent (undefined / null) or present
None == <<>>
Some(x) == <<x>>
\* the JavaScript values null and undefined where a string is expected
JsNull == "<null>"
JsUndefined == "<undefined>"
\* truthiness of a string-or-null-or-undefined value
Truthy(s) == s \notin {"", JsNull, JsUndefined}

Min(a, b) == IF a <= b THEN a ELSE b

RECURSIVE Pow(_, _)
Pow(b, e) == IF e <= 0 THEN 1 ELSE b * Pow(b, e - 1)

\* ------------------------------------------------------------------ errors

PiholeErrorCode ==
    { "unauthorized", "totp_required", "invalid_totp", "session_expired",
      "network_error", "timeout", "connection_refused", "certificate_error",
      "bad_request", "not_found", "conflict", "validation_error",
      "server_error", "service_unavailable", "parse_error", "unknown" }

\* message: a sequence (so that "HTTP <status>" is <<"HTTP", status>>);
\* hint and apiKey: "" when undefined
createError(code, message, status, hint, apiKey) ==
    [code |-> code, message |-> message, status |-> status,
     hint |-> hint, apiKey |-> apiKey]

statusToErrorCode(status) ==
    CASE status = 400 -> "bad_request"
      [] status = 401 -> "unauthorized"
      [] status = 403 -> "unauthorized"
      [] status = 404 -> "not_found"
      [] status = 409 -> "conflict"
      [] status = 422 -> "validation_error"
      [] status = 500 -> "server_error"
      [] status \in {502, 503, 504} -> "service_unavailable"
      [] OTHER -> IF status >= 400 /\ status < 500
                  THEN "bad_request" ELSE "server_error"

apiKeyToErrorCode(key) ==
    CASE key \in {"unauthorized", "auth_failed"} -> "unauthorized"
      [] key = "totp_required" -> "totp_required"
      [] key = "bad_totp" -> "invalid_totp"
      [] key = "session_expired" -> "session_expired"
      [] key = "not_found" -> "not_found"
      [] key = "conflict" -> "conflict"
      [] key = "bad_request" -> "bad_request"
      [] OTHER -> "unknown"

\* two policies that differ from the source's, for sensitivity analysis
isRetryableDropServerError(code) ==
    code \in {"network_error", "timeout", "service_unavailable"}

isRetryableAll(code) == TRUE

isRetryable(code) ==
    code \in {"network_error", "timeout", "service_unavailable", "server_error"}

isAuthError(code) ==
    code \in {"unauthorized", "session_expired", "totp_required"}

\* ------------------------------------------------------------------ result

\* data of a success: the parsed JSON body, or undefined (204)
NoData == [body |-> "none", session |-> None]
Undefined == [body |-> "undefined", session |-> None]
NoError == createError("", <<>>, 0, "", "")

ok(data) == [ok |-> TRUE, data |-> data, error |-> NoError]
err(error) == [ok |-> FALSE, data |-> NoData, error |-> error]
isOk(result) == result.ok
isErr(result) == ~result.ok

\* an unwrapOr() that always returns the default, for sensitivity analysis
unwrapOrDefault(result, defaultValue) == defaultValue

unwrapOr(result, defaultValue) ==
    IF result.ok THEN result.data ELSE defaultValue

\* the functions user code passes: on success values ...
ValueFns == {"mark", "dropSession"}
ValueFn(n, v) ==
    IF n = "mark" THEN [v EXCEPT !.body = "mapped"]
    ELSE [v EXCEPT !.session = None]

\* ... on errors ...
ErrorFns == {"hinted", "asUnknown"}
ErrorFn(n, e) ==
    IF n = "hinted" THEN [e EXCEPT !.hint = "wrapped"]
    ELSE createError("unknown", e.message, e.status, "", "")

\* ... and from success values to Results
ChainFns == {"requireBody", "requireSession"}
ChainFn(n, v) ==
    IF n = "requireBody"
    THEN (IF v.body = "undefined"
          THEN err(createError("parse_error", <<"Empty body">>, 0, "", ""))
          ELSE ok(v))
    ELSE (IF v.session = None
          THEN err(createError("unauthorized", <<"No session">>, 401, "", ""))
          ELSE ok([v EXCEPT !.body = "session"]))

\* map, mapErr, andThen: fn is the name of the function passed
map(result, fn) == IF result.ok THEN ok(ValueFn(fn, result.data)) ELSE result

mapErr(result, fn) == IF ~result.ok THEN err(ErrorFn(fn, result.error)) ELSE result

andThen(result, fn) == IF result.ok THEN ChainFn(fn, result.data) ELSE result

\* ----------------------------------------------------- answers of the wire

\* What one fetch() does.  thrown: "" (a Response arrives), "AbortError" (the
\* timeout aborted the call), "Error" (fetch rejected with an Error whose
\* lower-cased message contains the substrings in words), "NonError" (fetch
\* rejected with something that is no Error).  For a Response: its status,
\* whether its body parses as JSON (json: "invalid", or "object"), and for
\* an object body its error.key, whether error.message is present, and its
\* session member.
Answer(thrown, words, status, json, key, hasMsg, session) ==
    [thrown |-> thrown, words |-> words, status |-> status, json |-> json,
     key |-> key, hasMsg |-> hasMsg, session |-> session]

Http(status) == Answer("", {}, status, "invalid", "", FALSE, None)
HttpJson(status) == Answer("", {}, status, "object", "", FALSE, None)
HttpKey(status, key) == Answer("", {}, status, "object", key, TRUE, None)
Throws(name, words) == Answer(name, words, 0, "invalid", "", FALSE, None)
LoginOk(sid, csrf, validity) ==
    Answer("", {}, 200, "object", "", FALSE,
           Some([sid |-> sid, csrf |-> csrf, validity |-> validity]))

\* ---------------------------------------------------------------- http.ts

DEFAULT_HTTP_CONFIG ==
    [baseUrl |-> "", timeout |-> Some(10000), maxRetries |-> Some(3),
     retryDelayBase |-> 1000, retryDelayMax |-> 10000, backoffMultiplier |-> 2]

\* { ...defaults, ...config }: every own key of config overrides the default,
\* also a key whose value is undefined (None)
Spread(defaults, config) ==
    [k \in DOMAIN defaults |->
        IF k \in DOMAIN config THEN config[k] ELSE defaults[k]]

HttpClientNew(config) == Spread(DEFAULT_HTTP_CONFIG, config)

handleFetchError(a) ==
    IF a.thrown = "NonError"
    THEN createError("unknown", <<"Unknown error occurred">>, 0, "", "")
    ELSE IF a.thrown = "AbortError"
    THEN createError("timeout", <<"Request timed out">>, 0, "", "")
    ELSE IF a.words \cap {"ssl", "certificate", "cert_", "sec_error"} # {}
    THEN createError("certificate_error", <<"SSL certificate error">>, 0,
                     "Accept the certificate in your browser first", "")
    ELSE IF a.words \cap {"econnrefused", "connection refused"} # {}
    THEN createError("connection_refused", <<"Connection refused">>, 0, "", "")
    ELSE createError("network_error", <<"message", a.words>>, 0, "", "")

\* a parseErrorResponse() in which the status mapping comes first, for
\* sensitivity analysis
parseErrorResponseStatusFirst(a) ==
    LET apiKey == IF a.json = "object" THEN a.key ELSE ""
        hasMsg == a.json = "object" /\ a.hasMsg
    IN  createError(statusToErrorCode(a.status),
                    IF hasMsg THEN <<"message">> ELSE <<"HTTP", a.status>>,
                    a.status, "", apiKey)

parseErrorResponse(a) ==
    LET apiKey == IF a.json = "object" THEN a.key ELSE ""
        hasMsg == a.json = "object" /\ a.hasMsg
        code == IF apiKey # "" THEN apiKeyToErrorCode(apiKey)
                ELSE statusToErrorCode(a.status)
    IN  createError(code,
                    IF hasMsg THEN <<"message">> ELSE <<"HTTP", a.status>>,
                    a.status, "", apiKey)

\* a handleResponse() that parses the body of a 204 too, for sensitivity
\* analysis
handleResponseParseAll(a) ==
    IF ~(a.status >= 200 /\ a.status <= 299)
    THEN err(parseErrorResponse(a))
    ELSE IF a.json = "object"
    THEN ok([body |-> "json", session |-> a.session])
    ELSE err(createError("parse_error", <<"Failed to parse response">>,
                         a.status, "", ""))

handleResponse(a) ==
    IF ~(a.status >= 200 /\ a.status <= 299)
    THEN err(parseErrorResponse(a))
    ELSE IF a.status = 204
    THEN ok(Undefined)
    ELSE IF a.json = "object"
    THEN ok([body |-> "json", session |-> a.session])
    ELSE err(createError("parse_error", <<"Failed to parse response">>,
                         a.status, "", ""))

\* the Result of one attempt whose fetch() did a
executeRequest(a) ==
    IF a.thrown # "" THEN err(handleFetchError(a)) ELSE handleResponse(a)

\* two delay rules that differ from the source's, for sensitivity analysis
calculateDelayNoCap(cfg, attempt) ==
    cfg.retryDelayBase * Pow(cfg.backoffMultiplier, attempt)

calculateDelayLinear(cfg, attempt) ==
    Min(cfg.retryDelayBase * cfg.backoffMultiplier * attempt, cfg.retryDelayMax)

calculateDelay(cfg, attempt) ==
    Min(cfg.retryDelayBase * Pow(cfg.backoffMultiplier, attempt),
        cfg.retryDelayMax)

\* two attempt budgets that differ from the source's, for sensitivity analysis
maxAttemptsOffByOne(cfg, noRetry) ==
    IF noRetry THEN Some(1)
    ELSE IF cfg.maxRetries = None THEN None
    ELSE Some(cfg.maxRetries[1])

maxAttemptsIgnoreNoRetry(cfg, noRetry) ==
    IF cfg.maxRetries = None THEN None ELSE Some(cfg.maxRetries[1] + 1)

\* options.noRetry ? 1 : this.config.maxRetries + 1; None is NaN
\* (undefined + 1)
maxAttemptsOf(cfg, noRetry) ==
    IF noRetry THEN Some(1)
    ELSE IF cfg.maxRetries = None THEN None
    ELSE Some(cfg.maxRetries[1] + 1)

\* attempt < maxAttempts, false when maxAttempts is NaN
LessThan(attempt, maxAttempts) ==
    maxAttempts # None /\ attempt < maxAttempts[1]

\* locals of one call of HttpClient.request, with the history of its attempts:
\* attempts (network attempts made), sleeps (the backoff delays slept, in
\* order), trace (the classified outcome of every attempt, in order)
HttpLocals(cfg, noRetry) ==
    [noRetry |-> noRetry, timeout |-> cfg.timeout,
     maxAttempts |-> maxAttemptsOf(cfg, noRetry),
     attempt |-> 0, lastError |-> None,
     attempts |-> 0, sleeps |-> <<>>, trace |-> <<>>]

NoHttp == HttpLocals(DEFAULT_HTTP_CONFIG, FALSE)

Outcome(a, result) ==
    [ok |-> result.ok, code |-> result.error.code, status |-> result.error.status,
     message |-> result.error.message, apiKey |-> result.error.apiKey,
     thrown |-> a.thrown # "", response |-> a.status, json |-> a.json]

\* the head of the for loop of HttpClient.request: either the next attempt
\* is sent (next = "fetch") or the loop is left and the last error returned
loopTop(h) ==
    IF LessThan(h.attempt, h.maxAttempts)
    THEN [next |-> "fetch", h |-> [h EXCEPT !.attempts = @ + 1],
          result |-> err(NoError)]
    ELSE [next |-> "return", h |-> h,
          result |-> err(IF h.lastError # None THEN h.lastError[1]
                         ELSE createError("unknown", <<"Request failed">>,
                                          0, "", ""))]

\* a request() without the base URL check, for sensitivity analysis
httpRequestNoUrlCheck(cfg, noRetry) == loopTop(HttpLocals(cfg, noRetry))

\* HttpClient.request up to its first suspension
httpRequest(cfg, noRetry) ==
    IF cfg.baseUrl = ""
    THEN [next |-> "return", h |-> HttpLocals(cfg, noRetry),
          result |-> err(createError("bad_request",
                                     <<"Base URL not configured">>, 0, "", ""))]
    ELSE loopTop(HttpLocals(cfg, noRetry))

\* a request() that keeps the first failure as lastError, for sensitivity
\* analysis
httpOnAnswerKeepFirst(cfg, h, a) ==
    LET result == executeRequest(a)
        h1 == [h EXCEPT !.trace = Append(@, Outcome(a, result))]
        h2 == [h1 EXCEPT !.lastError = IF @ = None THEN Some(result.error) ELSE @]
    IN  IF result.ok
        THEN [next |-> "return", h |-> h1, result |-> result]
        ELSE IF ~isRetryable(result.error.code)
        THEN [next |-> "return", h |-> h2, result |-> result]
        ELSE IF LessThan(h.attempt + 1, h.maxAttempts)
        THEN [next |-> "sleep",
              h |-> [h2 EXCEPT !.sleeps = Append(@, calculateDelay(cfg, h.attempt))],
              result |-> result]
        ELSE loopTop([h2 EXCEPT !.attempt = @ + 1])

\* a request() that sleeps after every retryable failure, the last attempt's
\* included, for sensitivity analysis
httpOnAnswerSleepAlways(cfg, h, a) ==
    LET result == executeRequest(a)
        h1 == [h EXCEPT !.trace = Append(@, Outcome(a, result))]
        h2 == [h1 EXCEPT !.lastError = Some(result.error)]
    IN  IF result.ok
        THEN [next |-> "return", h |-> h1, result |-> result]
        ELSE IF ~isRetryable(result.error.code)
        THEN [next |-> "return", h |-> h2, result |-> result]
        ELSE [next |-> "sleep",
              h |-> [h2 EXCEPT !.sleeps = Append(@, calculateDelay(cfg, h.attempt))],
              result |-> result]

\* HttpClient.request from the answer a of the attempt in flight up to its
\* next suspension (a backoff sleep) or its return
httpOnAnswer(cfg, h, a) ==
    LET result == executeRequest(a)
        h1 == [h EXCEPT !.trace = Append(@, Outcome(a, result))]
        h2 == [h1 EXCEPT !.lastError = Some(result.error)]
    IN  IF result.ok
        THEN [next |-> "return", h |-> h1, result |-> result]
        ELSE IF ~isRetryable(result.error.code)
        THEN [next |-> "return", h |-> h2, result |-> result]
        ELSE IF LessThan(h.attempt + 1, h.maxAttempts)
        THEN [next |-> "sleep",
              h |-> [h2 EXCEPT !.sleeps = Append(@, calculateDelay(cfg, h.attempt))],
              result |-> result]
        ELSE loopTop([h2 EXCEPT !.attempt = @ + 1])

\* HttpClient.request from the end of a backoff sleep
httpOnWake(h) == loopTop([h EXCEPT !.attempt = @ + 1])

\* -------------------------------------------------------------- session.ts

DEFAULT_SESSION_CONFIG == [autoRefresh |-> TRUE, refreshThreshold |-> 60]

\* an isExpired() that is true one tick early, for sensitivity analysis
isExpiredEarly(st, t) ==
    IF st = None THEN TRUE ELSE t + TickMs >= st[1].expiresAt

isExpired(st, t) == IF st = None THEN TRUE ELSE t >= st[1].expiresAt

hasSession(st, t) == st # None /\ ~isExpired(st, t)

\* a needsRefresh() that ignores autoRefresh, for sensitivity analysis
needsRefreshAlways(st, scfg, t) ==
    IF st = None THEN FALSE
    ELSE t >= st[1].expiresAt - scfg.refreshThreshold * 1000

needsRefresh(st, scfg, t) ==
    IF st = None \/ ~scfg.autoRefresh THEN FALSE
    ELSE t >= st[1].expiresAt - scfg.refreshThreshold * 1000

isTotpRequired(st) == IF st = None THEN FALSE ELSE st[1].totpRequired

getAuthHeaders(st) ==
    IF st = None THEN None ELSE Some([sid |-> st[1].sid, csrf |-> st[1].csrf])

\* an updateSession() that takes the validity for milliseconds, for
\* sensitivity analysis
updateSessionMs(session, t) ==
    Some([sid |-> session.sid, csrf |-> session.csrf,
          expiresAt |-> t + session.validity, totpRequired |-> FALSE])

updateSession(session, t) ==
    Some([sid |-> session.sid, csrf |-> session.csrf,
          expiresAt |-> t + session.validity * 1000, totpRequired |-> FALSE])

\* a two-factor-required value with the flag clear, for sensitivity analysis
TotpStateUnflagged ==
    Some([sid |-> "", csrf |-> "", expiresAt |-> 0, totpRequired |-> FALSE])

TotpState ==
    Some([sid |-> "", csrf |-> "", expiresAt |-> 0, totpRequired |-> TRUE])

\* SessionManager constructor: the stored password ("" for null) and state
SessionPassword(config) ==
    IF config.password # None /\ Truthy(config.password[1])
    THEN config.password[1] ELSE ""

SessionInitial(config, t) ==
    IF config.sid # None /\ Truthy(config.sid[1]) /\
       config.csrf # None /\ Truthy(config.csrf[1])
    THEN Some([sid |-> config.sid[1], csrf |-> config.csrf[1],
               expiresAt |-> t + 300000, totpRequired |-> FALSE])
    ELSE None

\* refreshPromise: null; the pending promise of the authenticate() started by
\* caller t's ensureSession (t \in Tasks); or a promise that has rejected
NoPromise == 0
RejectedPromise == -1

\* a clear() that keeps the Session, for sensitivity analysis
clearOnlyMarker(st, rp) == [state |-> st, refreshPromise |-> NoPromise]

\* clear(): the state and the pending marker it leaves
clear(st, rp) == [state |-> None, refreshPromise |-> NoPromise]

\* an authenticate() that drops the state when no password is configured,
\* for sensitivity analysis
authNoPasswordClearing(st) == [state |-> None, outcome |-> "false"]

\* authenticate() with no password configured: false at once, nothing
\* assigned and nothing sent
authNoPassword(st) == [state |-> st, outcome |-> "false"]

\* authenticate() from the Result of its login call: the new state and what
\* the promise settles to ("true", "false", or "throw": result.data is
\* undefined after a 204, or result.data.session is undefined, and reading a
\* property of it throws a TypeError before anything is assigned)
authOnResult(st, result, t) ==
    IF ~isOk(result)
    THEN [state |-> IF result.error.code = "totp_required" THEN TotpState ELSE st,
          outcome |-> "false"]
    ELSE IF result.data.body = "undefined" \/ result.data.session = None
    THEN [state |-> st, outcome |-> "throw"]
    ELSE [state |-> updateSession(result.data.session[1], t), outcome |-> "true"]

\* --------------------------------------------------------------- client.ts

StripSlashes(url) ==
    CASE url = "http://pi.hole/" -> "http://pi.hole"
      [] url = "/" -> ""
      [] OTHER -> url

\* the HttpClient a PiholeClient builds: baseUrl, timeout and maxRetries are
\* always passed as keys, each undefined when the caller left it out
ClientHttpConfig(config) ==
    HttpClientNew([baseUrl |-> StripSlashes(config.baseUrl),
                   timeout |-> config.timeout,
                   maxRetries |-> config.maxRetries])

ClientSessionConfig(config) ==
    [autoRefresh |-> IF config.autoRefresh = None THEN TRUE
                     ELSE config.autoRefresh[1],
     refreshThreshold |-> IF config.refreshThreshold = None THEN 60
                          ELSE config.refreshThreshold[1]]

\* two recovery tests that differ from the source's, for sensitivity analysis
ShouldReauthOnAnyFailure(result) == ~result.ok

ShouldReauthOnAuthError(result) ==
    ~result.ok /\ isAuthError(result.error.code)

\* the facade's test for its 401 recovery
ShouldReauth(result) == ~result.ok /\ result.error.status = 401

\* ------------------------------------------------------------------- state

VARIABLES
    clientConfig,   \* the PiholeClientConfig the client was built from
    httpConfig,     \* HttpClient.config
    sessConfig,     \* SessionManager.config (autoRefresh, refreshThreshold)
    password,       \* SessionManager.password ("" for null)
    state,          \* SessionManager.state (None for null)
    refreshPromise, \* SessionManager.refreshPromise, see NoPromise
    now,            \* Date.now()
    pc,             \* where each caller's call is suspended
    call,           \* each caller's current (or last) call: locals and history
    calls           \* calls started so far

vars == <<clientConfig, httpConfig, sessConfig, password, state,
          refreshPromise, now, pc, call, calls>>

\* pc: "idle" (no call yet), "fetch" (a network attempt in flight), "sleep"
\* (a backoff sleep), "join" (awaiting another caller's refreshPromise),
\* "done" (the call's promise has settled).
\* call[t].ctx says which http.request the caller is inside:
\* "target" (the facade's or a wrapper's request), "ensure" (the login of
\* ensureSession), "reauth" (the login of handleUnauthorized), "login" (the
\* login of connect), "logout" (the DELETE of logout).
NewCall(op) ==
    [op |-> op, ctx |-> "none", settled |-> "pending", result |-> None,
     h |-> NoHttp, hdrs |-> None,
     ensure |-> "none", owner |-> 0, group |-> 0,
     logins |-> 0, reauths |-> 0, reauth |-> "none", installed |-> None,
     validity |-> None,
     issued |-> 0, targets |-> <<>>]

Finish(c, result) == [c EXCEPT !.settled = "resolved", !.result = Some(result)]
Reject(c) == [c EXCEPT !.settled = "rejected"]
Step(p, c, st) == [pc |-> p, call |-> c, state |-> st]

NotAuthenticated == err(createError("unauthorized", <<"Not authenticated">>, 401, "", ""))

\* one http.request has returned: remember how many attempts it made
Returned(c, h, result) ==
    [c EXCEPT !.h = h,
              !.targets = IF c.ctx = "target"
                          THEN Append(@, [attempts |-> h.attempts, result |-> result])
                          ELSE @]

\* handleUnauthorized() up to its suspension: the state is dropped and
\* authenticate() starts; with no password it returns false at once
BeginReauth(c, result) ==
    LET c1 == [c EXCEPT !.reauths = @ + 1]
        s == httpRequest(httpConfig, TRUE)
    IN  IF password = ""
        THEN Step("done",
                  Finish([c1 EXCEPT !.reauth = authNoPassword(None).outcome], result),
                  authNoPassword(None).state)
        ELSE IF s.next = "fetch"
        THEN Step("fetch", [c1 EXCEPT !.ctx = "reauth", !.h = s.h, !.hdrs = None,
                                      !.logins = @ + 1], None)
        ELSE Step("done", Finish([c1 EXCEPT !.reauth = "false"], result),
                  authOnResult(None, s.result, now).state)

\* a facade that recovers from every 401, the one answered to the repeated
\* request included, for sensitivity analysis
TargetReturnedEvery401(c, result, st) ==
    IF c.op = "request" /\ ShouldReauth(result)
    THEN BeginReauth(c, result)
    ELSE IF c.op = "test" /\ ~result.ok /\ result.error.status = 401
    THEN Step("done", Finish(c, ok(Undefined)), st)
    ELSE Step("done", Finish(c, result), st)

\* the code after a target http.request of caller c returned result: the
\* facade's one 401 recovery after its first request; testConnection() turns
\* a 401 into a success; every other caller returns the result
TargetReturned(c, result, st) ==
    IF c.op = "request" /\ c.issued = 1 /\ ShouldReauth(result)
    THEN BeginReauth(c, result)
    ELSE IF c.op = "test" /\ ~result.ok /\ result.error.status = 401
    THEN Step("done", Finish(c, ok(Undefined)), st)
    ELSE Step("done", Finish(c, result), st)

\* this.http.request(options, headers) up to its first suspension
SendWith(c, st, noRetry, headers) ==
    LET s == httpRequest(httpConfig, noRetry)
        c1 == [c EXCEPT !.ctx = "target", !.h = s.h, !.hdrs = headers,
                        !.issued = @ + 1]
    IN  IF s.next = "fetch" THEN Step("fetch", c1, st)
        ELSE TargetReturned(Returned(c1, s.h, s.result), s.result, st)

\* the facade's this.http.request({method, path, body}, getAuthHeaders())
SendTarget(c, st) == SendWith(c, st, FALSE, getAuthHeaders(st))

\* a facade that sends the request whatever ensureSession() returned, for
\* sensitivity analysis
AfterEnsureSendAnyway(c, e, st) == SendTarget([c EXCEPT !.ensure = e], st)

\* the facade after ensureSession() settled to e for caller c
AfterEnsure(c, e, st) ==
    LET c1 == [c EXCEPT !.ensure = e]
    IN  CASE e = "true" -> SendTarget(c1, st)
          [] e = "false" -> Step("done", Finish(c1, NotAuthenticated), st)
          [] OTHER -> Step("done", Reject(c1), st)

\* connect() after authenticate() settled to e
AfterConnect(c, e, st) ==
    CASE e = "true" -> Step("done", Finish(c, ok(Undefined)), st)
      [] e = "false" ->
            Step("done",
                 Finish(c, err(IF isTotpRequired(st)
                               THEN createError("totp_required", <<"TOTP code required">>, 401, "", "")
                               ELSE createError("unauthorized", <<"Authentication failed">>, 401, "", ""))),
                 st)
      [] OTHER -> Step("done", Reject(c), st)

\* request() after handleUnauthorized() settled to e
AfterReauth(c, e, st) ==
    LET c1 == [c EXCEPT !.reauth = e]
    IN  CASE e = "true" -> SendTarget(c1, st)
          [] e = "false" -> Step("done", Finish(c1, c.targets[1].result), st)
          [] OTHER -> Step("done", Reject(c1), st)

\* a disconnect() that counts a 401 as a failure, for sensitivity analysis
AfterLogoutStrict(c, result) ==
    Finish(c, IF isOk(result) THEN ok(Undefined)
              ELSE err(createError("unknown", <<"Logout failed">>, 0, "", "")))

\* disconnect() after the DELETE of logout() returned result
AfterLogout(c, result) ==
    LET success == (~isOk(result) /\ result.error.status = 401) \/ isOk(result)
    IN  Finish(c, IF success THEN ok(Undefined)
                  ELSE err(createError("unknown", <<"Logout failed">>, 0, "", "")))

CanCall(t) == pc[t] \in {"idle", "done"} /\ calls < MaxCalls

\* The history of a call (its counters, the trace of its attempts, what it
\* returned) is kept for one caller, the observed one; the callers are
\* interchangeable.  Of any other caller only the locals its code reads are
\* kept, and nothing once its call has returned.
Observed == CHOOSE t \in Tasks : \A u \in Tasks : t <= u

Blank == [NewCall("none") EXCEPT !.settled = "none"]

Forget(p, c) ==
    IF p = "done" THEN Blank
    ELSE [Blank EXCEPT !.op = c.op, !.ctx = c.ctx, !.settled = c.settled,
                       !.owner = c.owner, !.issued = c.issued,
                       !.targets = c.targets,
                       !.h = [NoHttp EXCEPT !.noRetry = c.h.noRetry,
                                            !.maxAttempts = c.h.maxAttempts,
                                            !.attempt = c.h.attempt,
                                            !.lastError = c.h.lastError]]

Seen(t, p, c) == IF t = Observed THEN c ELSE Forget(p, c)
Pc(t, p) == IF t # Observed /\ p = "done" THEN "idle" ELSE p

Apply(t, s) ==
    /\ pc' = [pc EXCEPT ![t] = Pc(t, s.pc)]
    /\ call' = [call EXCEPT ![t] = Seen(t, s.pc, s.call)]
    /\ state' = s.state

Config == <<clientConfig, httpConfig, sessConfig, password>>

\* ------------------------------------------------------- what the wire does

URL == "http://pi.hole"

\* answers to a request of the facade or of an endpoint wrapper
TargetAnswers == {HttpJson(200), Http(401), Http(403), Http(503)}

\* answers to POST /api/auth
LoginAnswers ==
    { LoginOk("s1", "c1", 120), LoginOk("s2", "c2", 60),
      LoginOk(JsNull, JsUndefined, -1),
      Http(204), HttpJson(200),
      HttpKey(401, "totp_required"), Http(401), Http(503) }

\* answers to DELETE /api/auth
LogoutAnswers ==
    {Http(204), Http(401), Http(500), Throws("AbortError", {}), Throws("Error", {})}

\* everything the wire can do: the answers to a request made on an
\* HttpClient directly
WireAnswers ==
    { HttpJson(200), Http(204), Http(200), HttpJson(204), Http(201),
      Throws("Error", {}), Throws("AbortError", {}), Http(503), Http(500),
      Http(400), Http(401), Http(403), Http(404), Http(409), Http(418), Http(422),
      HttpKey(401, "totp_required"), HttpKey(401, "bad_totp"),
      HttpKey(401, "session_expired"), HttpKey(503, "not_found"),
      HttpKey(400, "weird"),
      Throws("Error", {"ssl"}), Throws("Error", {"econnrefused"}),
      Throws("NonError", {}) }

\* further statuses, answered to the one attempt of testConnection()
StatusAnswers ==
    { Http(502), Http(504), Http(501), Http(429), HttpKey(404, "conflict"),
      HttpKey(500, "bad_request"), HttpKey(403, "auth_failed") }

AnswersTo(op) ==
    CASE op = "test" -> WireAnswers \cup StatusAnswers
      [] op = "direct" -> WireAnswers
      [] OTHER -> TargetAnswers

\* ----------------------------------------------------------- configurations

\* the PiholeClientConfig values a client is built from: password, sid, csrf,
\* timeout, maxRetries, autoRefresh, refreshThreshold in seconds (None: left
\* out)
ClientConfigs ==
    { [baseUrl |-> URL, password |-> c[1], sid |-> c[2], csrf |-> c[3],
       timeout |-> c[4], maxRetries |-> c[5],
       autoRefresh |-> c[6], refreshThreshold |-> c[7]] :
         c \in { <<Some("pw"), None, None, None, None, None, None>>,
                 <<Some("pw"), None, None, Some(10000), Some(1), None, None>>,
                 <<None, Some("s0"), Some("c0"), Some(10000), Some(1), None, Some(240)>>,
                 <<Some("pw"), Some("s0"), Some("c0"), Some(10000), Some(1), None, None>>,
                 <<Some("pw"), Some("s0"), Some("c0"), Some(10000), Some(0), Some(FALSE), None>> } }

NoClient ==
    [baseUrl |-> "", password |-> None, sid |-> None, csrf |-> None,
     timeout |-> None, maxRetries |-> None,
     autoRefresh |-> None, refreshThreshold |-> None]

\* the Partial<HttpConfig> values an HttpClient is built from
HttpConfigs ==
    { [baseUrl |-> b] : b \in {"", URL} }
    \cup { [maxRetries |-> Some(n)] : n \in {0, MaxRetriesCfg} }
    \cup { [baseUrl |-> URL, maxRetries |-> None] }
    \cup { [baseUrl |-> URL, maxRetries |-> Some(n)] : n \in 0..MaxRetriesCfg }
    \cup { [baseUrl |-> URL, maxRetries |-> Some(3), retryDelayMax |-> 3000],
           [baseUrl |-> URL, maxRetries |-> Some(3), retryDelayBase |-> 500,
            backoffMultiplier |-> 3] }

\* ---------------------------------------------------------------- actions

Idle == [t \in Tasks |-> "idle"]
NoCalls == [t \in Tasks |-> Blank]

Init ==
    /\ clientConfig \in ClientConfigs
    /\ httpConfig = ClientHttpConfig(clientConfig)
    /\ sessConfig = ClientSessionConfig(clientConfig)
    /\ password = SessionPassword(clientConfig)
    /\ now = 0
    /\ state = SessionInitial(clientConfig, now)
    /\ refreshPromise = NoPromise
    /\ pc = Idle
    /\ call = NoCalls
    /\ calls = 0

InitHttp ==
    /\ clientConfig = NoClient
    /\ httpConfig \in {HttpClientNew(c) : c \in HttpConfigs}
    /\ sessConfig = DEFAULT_SESSION_CONFIG
    /\ password = ""
    /\ now = 0
    /\ state = None
    /\ refreshPromise = NoPromise
    /\ pc = Idle
    /\ call = NoCalls
    /\ calls = 0

\* PiholeClient.request(): ensureSession() and, when it resolves at once,
\* the first request
RequestCall(t) ==
    /\ CanCall(t)
    /\ calls' = calls + 1
    /\ LET c == NewCall("request")
           s == httpRequest(httpConfig, TRUE)
           a == authOnResult(state, s.result, now)
       IN  IF hasSession(state, now) /\ ~needsRefresh(state, sessConfig, now)
           THEN Apply(t, AfterEnsure(c, "true", state)) /\ UNCHANGED refreshPromise
           ELSE IF refreshPromise = RejectedPromise
           THEN Apply(t, AfterEnsure(c, "throw", state)) /\ UNCHANGED refreshPromise
           ELSE IF refreshPromise # NoPromise
           THEN /\ Apply(t, Step("join", [c EXCEPT !.ensure = "wait",
                                                   !.owner = refreshPromise], state))
                /\ UNCHANGED refreshPromise
           ELSE IF password = ""
           THEN /\ Apply(t, AfterEnsure(c, authNoPassword(state).outcome,
                                         authNoPassword(state).state))
                /\ refreshPromise' = NoPromise
           ELSE IF s.next = "fetch"
           THEN /\ Apply(t, Step("fetch", [c EXCEPT !.ctx = "ensure", !.ensure = "wait",
                                                    !.owner = t, !.h = s.h,
                                                    !.logins = 1], state))
                /\ refreshPromise' = t
           ELSE Apply(t, AfterEnsure(c, a.outcome, a.state)) /\ refreshPromise' = NoPromise
    /\ UNCHANGED <<Config, now>>

\* PiholeClient.connect(totp): authenticate() outside the pending mechanism
ConnectCall(t) ==
    /\ CanCall(t)
    /\ calls' = calls + 1
    /\ LET c == NewCall("connect")
           s == httpRequest(httpConfig, TRUE)
           a == authOnResult(state, s.result, now)
       IN  IF password = ""
           THEN Apply(t, AfterConnect(c, authNoPassword(state).outcome,
                                      authNoPassword(state).state))
           ELSE IF s.next = "fetch"
           THEN Apply(t, Step("fetch", [c EXCEPT !.ctx = "login", !.h = s.h,
                                                 !.logins = 1], state))
           ELSE Apply(t, AfterConnect(c, a.outcome, a.state))
    /\ UNCHANGED <<Config, now, refreshPromise>>

\* PiholeClient.disconnect(): logout()
DisconnectCall(t) ==
    /\ CanCall(t)
    /\ calls' = calls + 1
    /\ LET c == NewCall("disconnect")
           s == httpRequest(httpConfig, TRUE)
       IN  IF state = None
           THEN Apply(t, Step("done", Finish(c, ok(Undefined)), state))
                /\ UNCHANGED refreshPromise
           ELSE IF s.next = "fetch"
           THEN /\ Apply(t, Step("fetch", [c EXCEPT !.ctx = "logout", !.h = s.h,
                                                    !.hdrs = getAuthHeaders(state)],
                                 state))
                /\ UNCHANGED refreshPromise
           ELSE /\ Apply(t, Step("done", AfterLogout(c, s.result),
                                 clear(state, refreshPromise).state))
                /\ refreshPromise' = clear(state, refreshPromise).refreshPromise
    /\ UNCHANGED <<Config, now>>

\* HttpClient.request(options, headers) called by op
DirectCall(t, op, noRetry, headers) ==
    /\ CanCall(t)
    /\ calls' = calls + 1
    /\ Apply(t, SendWith(NewCall(op), state, noRetry, headers))
    /\ UNCHANGED <<Config, now, refreshPromise>>

\* HttpClient.request(options) called by user code
HttpCall(t, noRetry) == DirectCall(t, "direct", noRetry, None)

\* an endpoint wrapper, such as client.dns.getStatus() or
\* client.actions.restartDns(): http.request(options, getAuthHeaders())
EndpointCall(t) == DirectCall(t, "endpoint", FALSE, getAuthHeaders(state))

\* PiholeClient.testConnection(): GET /api/auth, noRetry, no auth headers
TestConnectionCall(t) == DirectCall(t, "test", TRUE, None)

\* the attempt in flight of a target request is answered
TargetAnswered(t) ==
    /\ pc[t] = "fetch" /\ call[t].ctx = "target"
    /\ \E a \in AnswersTo(call[t].op) :
         LET s == httpOnAnswer(httpConfig, call[t].h, a)
         IN  IF s.next = "return"
             THEN Apply(t, TargetReturned(Returned(call[t], s.h, s.result),
                                          s.result, state))
             ELSE Apply(t, Step(s.next, [call[t] EXCEPT !.h = s.h], state))
    /\ UNCHANGED <<Config, now, refreshPromise, calls>>

\* the callers that settle with the authenticate() of ensureSession owner t
Group(t) == {t} \cup {u \in Tasks : pc[u] = "join" /\ call[u].owner = t}

\* the attempt in flight of a login is answered; authenticate() settles, and
\* with it every caller awaiting it
LoginAnswered(t) ==
    /\ pc[t] = "fetch" /\ call[t].ctx \in {"ensure", "reauth", "login"}
    /\ \E a \in LoginAnswers :
         LET s == httpOnAnswer(httpConfig, call[t].h, a)
             session == s.result.data.session
             c == [call[t] EXCEPT
                     !.h = s.h,
                     !.installed = IF s.next = "return" /\ session # None
                                   THEN Some([sid |-> session[1].sid,
                                              csrf |-> session[1].csrf])
                                   ELSE None,
                     !.validity = IF s.next = "return" /\ session # None
                                  THEN Some(session[1].validity)
                                  ELSE None]
             auth == authOnResult(state, s.result, now)
             g == Group(t)
             resumed(u) == AfterEnsure([(IF u = t THEN c ELSE call[u])
                                            EXCEPT !.group = Cardinality(g)],
                                       auth.outcome, auth.state)
         IN  IF s.next # "return"
             THEN /\ Apply(t, Step(s.next, c, state))
                  /\ UNCHANGED refreshPromise
             ELSE IF c.ctx = "login"
             THEN /\ Apply(t, AfterConnect(c, auth.outcome, auth.state))
                  /\ UNCHANGED refreshPromise
             ELSE IF c.ctx = "reauth"
             THEN /\ Apply(t, AfterReauth(c, auth.outcome, auth.state))
                  /\ UNCHANGED refreshPromise
             ELSE /\ pc' = [u \in Tasks |->
                            IF u \in g THEN Pc(u, resumed(u).pc) ELSE pc[u]]
                  /\ call' = [u \in Tasks |->
                              IF u \in g THEN Seen(u, resumed(u).pc, resumed(u).call)
                              ELSE call[u]]
                  /\ state' = auth.state
                  /\ refreshPromise' =
                        IF auth.outcome = "throw"
                        THEN (IF refreshPromise = t THEN RejectedPromise
                              ELSE refreshPromise)
                        ELSE NoPromise
    /\ UNCHANGED <<Config, now, calls>>

\* the DELETE of logout() is answered: clear(), whatever the answer
LogoutAnswered(t) ==
    /\ pc[t] = "fetch" /\ call[t].ctx = "logout"
    /\ \E a \in LogoutAnswers :
         LET s == httpOnAnswer(httpConfig, call[t].h, a)
             c == [call[t] EXCEPT !.h = s.h]
         IN  IF s.next # "return"
             THEN Apply(t, Step(s.next, c, state)) /\ UNCHANGED refreshPromise
             ELSE /\ Apply(t, Step("done", AfterLogout(c, s.result),
                                   clear(state, refreshPromise).state))
                  /\ refreshPromise' = clear(state, refreshPromise).refreshPromise
    /\ UNCHANGED <<Config, now, calls>>

\* a backoff sleep ends: the next attempt is sent
BackoffElapsed(t) ==
    /\ pc[t] = "sleep"
    /\ LET s == httpOnWake(call[t].h)
       IN  /\ s.next = "fetch"
           /\ Apply(t, Step("fetch", [call[t] EXCEPT !.h = s.h], state))
    /\ UNCHANGED <<Config, now, refreshPromise, calls>>

\* time passes
Tick ==
    /\ now < MaxTicks * TickMs
    /\ now' = now + TickMs
    /\ UNCHANGED <<Config, state, refreshPromise, pc, call, calls>>

Next ==
    \/ \E t \in Tasks : RequestCall(t)
    \/ \E t \in Tasks : ConnectCall(t)
    \/ \E t \in Tasks : DisconnectCall(t)
    \/ \E t \in Tasks : EndpointCall(t)
    \/ \E t \in Tasks : TestConnectionCall(t)
    \/ \E t \in Tasks : TargetAnswered(t)
    \/ \E t \in Tasks : LoginAnswered(t)
    \/ \E t \in Tasks : LogoutAnswered(t)
    \/ \E t \in Tasks : BackoffElapsed(t)
    \/ Tick

Spec == Init /\ [][Next]_vars

\* every network attempt in flight is answered (fetch() settles, by its
\* timeout at the latest) and every backoff timer fires
Fairness ==
    \A t \in Tasks :
        /\ WF_vars(TargetAnswered(t))
        /\ WF_vars(LoginAnswered(t))
        /\ WF_vars(BackoffElapsed(t))

\* calls of request() and disconnect() by every caller
NextLive ==
    \/ \E t \in Tasks : RequestCall(t)
    \/ \E t \in Tasks : DisconnectCall(t)
    \/ \E t \in Tasks : TargetAnswered(t)
    \/ \E t \in Tasks : LoginAnswered(t)
    \/ \E t \in Tasks : LogoutAnswered(t)
    \/ \E t \in Tasks : BackoffElapsed(t)

SpecLive == Init /\ [][NextLive]_vars /\ Fairness

\* one caller using an HttpClient on its own
NextHttp ==
    \/ \E noRetry \in BOOLEAN : HttpCall(Observed, noRetry)
    \/ TargetAnswered(Observed)
    \/ BackoffElapsed(Observed)

SpecHttp == InitHttp /\ [][NextHttp]_vars

\* user code chaining the combinators of result.ts on a Result it holds

Defaults == {Undefined, [body |-> "default", session |-> None]}

\* the Results an attempt can produce
Results == {executeRequest(a) : a \in WireAnswers \cup LoginAnswers}

Held == call[Observed].result[1]

Hold(r) ==
    /\ calls' = calls + 1
    /\ call' = [call EXCEPT ![Observed].result = Some(r)]
    /\ UNCHANGED <<Config, state, refreshPromise, now, pc>>

InitResult ==
    /\ clientConfig = NoClient
    /\ httpConfig = HttpClientNew([baseUrl |-> URL])
    /\ sessConfig = DEFAULT_SESSION_CONFIG
    /\ password = ""
    /\ now = 0
    /\ state = None
    /\ refreshPromise = NoPromise
    /\ pc = [Idle EXCEPT ![Observed] = "done"]
    /\ \E r \in Results :
          call = [NoCalls EXCEPT ![Observed] = Finish(NewCall("chain"), r)]
    /\ calls = 0

MapCall ==
    /\ calls < MaxCalls
    /\ \E n \in ValueFns : Hold(map(Held, n))
MapErrCall ==
    /\ calls < MaxCalls
    /\ \E n \in ErrorFns : Hold(mapErr(Held, n))
AndThenCall ==
    /\ calls < MaxCalls
    /\ \E n \in ChainFns : Hold(andThen(Held, n))
UnwrapOrCall ==
    /\ calls < MaxCalls
    /\ \E d \in Defaults : Hold(ok(unwrapOr(Held, d)))

NextResult ==
    \/ MapCall
    \/ MapErrCall
    \/ AndThenCall
    \/ UnwrapOrCall

SpecResult == InitResult /\ [][NextResult]_vars

\* ------------------------------------------------------------------ claims

\* the observed caller's call, and the locals of its http.request
Obs == call[Observed]
ObsDone == pc[Observed] = "done"
ObsResolved == ObsDone /\ Obs.settled = "resolved"
LoginContexts == {"ensure", "reauth", "login"}

\* the kinds the retry policy is specified to retry
RetryableKinds ==
    {"network_error", "timeout", "service_unavailable", "server_error"}

\* the first n attempts of trace all failed with kind k
FailedWith(trace, n, k) ==
    /\ n <= Len(trace)
    /\ \A i \in 1..n : ~trace[i].ok /\ trace[i].code = k

\* C1: when callers of ensureSession() find no valid session while a login is
\* pending, they send no login of their own and await the one in flight
\* (which its owner sent exactly once), and every caller of a group of two or
\* more settles to the boolean outcome of that attempt.
C1_CallersShareOneLogin ==
    /\ pc[Observed] = "join" =>
          /\ Obs.logins = 0
          /\ pc[Obs.owner] = "fetch" /\ call[Obs.owner].ctx = "ensure"
    /\ (pc[Observed] = "fetch" /\ Obs.ctx = "ensure") => Obs.logins = 1
    /\ Obs.group >= 2 => Obs.ensure \in {"true", "false"}

\* C2: at most one login request is in flight at any time, whichever
\* operation started it.
C2_AtMostOneLoginInFlight ==
    Cardinality({t \in Tasks : pc[t] \in {"fetch", "sleep"} /\
                               call[t].ctx \in LoginContexts}) <= 1

\* C3: in one call of request(), handleUnauthorized() runs at most once, and
\* exactly when the first orchestrated request failed with status 401; the
\* request is issued a second time exactly when that re-authentication
\* returned true, with the headers of the session that login installed; and
\* the call returns the outcome of the last request issued, a second 401
\* included.
C3_One401Recovery ==
    Obs.op = "request" =>
      /\ Obs.reauths <= 1 /\ Obs.issued <= 2
      /\ Obs.reauths = 1 <=>
            /\ Len(Obs.targets) >= 1
            /\ ~Obs.targets[1].result.ok
            /\ Obs.targets[1].result.error.status = 401
      /\ Obs.issued = 2 <=> Obs.reauth = "true"
      /\ Obs.issued = 2 =>
            /\ Obs.reauths = 1 /\ Obs.installed # None
            /\ Obs.hdrs = Obs.installed
      /\ (ObsDone /\ Obs.issued >= 1 /\ Obs.reauth # "throw") =>
            /\ Obs.settled = "resolved"
            /\ Len(Obs.targets) = Obs.issued
            /\ Obs.result = Some(Obs.targets[Obs.issued].result)

C3_Witness ==
    /\ ObsResolved /\ Obs.op = "request"
    /\ Obs.reauths = 1 /\ Obs.issued = 2 /\ Obs.logins = 1
    /\ Obs.targets[1].result.error.status = 401
    /\ ~Obs.result[1].ok /\ Obs.result[1].error.status = 401

\* C4: a call without noRetry on a client with numeric maxRetries m >= 0 and
\* a base URL never returns while all its attempts so far, fewer than m + 1,
\* failed with a retryable kind (the backend's next answer could be the
\* success); it never makes more than m + 1 attempts; and when the first m
\* attempts failed with one retryable kind and attempt m + 1 succeeded, it
\* returns that success.
C4_RetryThenSuccess ==
    (Obs.op = "direct" /\ ~Obs.h.noRetry /\ httpConfig.baseUrl # "" /\
     httpConfig.maxRetries # None) =>
      LET m == httpConfig.maxRetries[1]
          trace == Obs.h.trace
      IN  /\ Obs.h.attempts <= m + 1
          /\ \A k \in RetryableKinds :
               /\ (ObsDone /\ FailedWith(trace, Len(trace), k)) =>
                     Len(trace) = m + 1
               /\ (ObsDone /\ Len(trace) = m + 1 /\ FailedWith(trace, m, k) /\
                   trace[m + 1].ok) =>
                     /\ Obs.settled = "resolved"
                     /\ Obs.result[1].ok
                     /\ Obs.h.attempts = m + 1

C4_Witness ==
    /\ ObsResolved /\ Obs.op = "direct" /\ ~Obs.h.noRetry
    /\ httpConfig.maxRetries = Some(3)
    /\ Len(Obs.h.trace) = 4 /\ FailedWith(Obs.h.trace, 3, "service_unavailable")
    /\ Obs.h.trace[4].ok /\ Obs.result[1].ok /\ Obs.h.attempts = 4

\* C5: once the first attempt of a call has failed with a non-retryable
\* kind, the call has returned that failure after exactly one attempt and
\* without any backoff sleep, whatever maxRetries is.
C5_NonRetryableOnce ==
    (Obs.op = "direct" /\ Len(Obs.h.trace) >= 1 /\ ~Obs.h.trace[1].ok /\
     Obs.h.trace[1].code \notin RetryableKinds) =>
      /\ ObsResolved
      /\ Obs.h.attempts = 1 /\ Len(Obs.h.trace) = 1 /\ Obs.h.sleeps = <<>>
      /\ ~Obs.result[1].ok
      /\ Obs.result[1].error.code = Obs.h.trace[1].code
      /\ Obs.result[1].error.status = Obs.h.trace[1].status

C5_Witness ==
    /\ ObsResolved /\ Obs.op = "direct" /\ ~Obs.h.noRetry
    /\ httpConfig.maxRetries = Some(3)
    /\ Len(Obs.h.trace) = 1 /\ Obs.h.trace[1].code = "not_found"
    /\ Obs.h.attempts = 1

\* C6: an http.request whose descriptor sets noRetry makes at most one
\* network attempt and never sleeps, whatever the failure and maxRetries;
\* the login and logout calls of the session manager set noRetry, so none
\* of them is sent more than once.
C6_NoRetryOnce ==
    /\ Obs.ctx \in LoginContexts \cup {"logout"} => Obs.h.noRetry
    /\ Obs.op = "test" => Obs.h.noRetry
    /\ Obs.h.noRetry =>
          /\ Obs.h.attempts <= 1 /\ Obs.h.sleeps = <<>>
          /\ pc[Observed] # "sleep"
          /\ pc[Observed] = "fetch" => Obs.h.attempts = 1 /\ Obs.h.trace = <<>>
          /\ Obs.h.trace # <<>> => Obs.h.attempts = 1 /\ pc[Observed] = "done"
          /\ (ObsDone /\ Obs.settled = "resolved" /\ Obs.op \in {"test", "connect"}) =>
                Obs.h.attempts = 1
    /\ Obs.logins <= 1 + Obs.reauths
    /\ Obs.op = "connect" => Obs.logins <= 1

C6_Witness ==
    /\ ObsDone /\ Obs.op = "connect" /\ httpConfig.maxRetries = Some(1)
    /\ Obs.h.noRetry /\ Obs.h.attempts = 1 /\ Obs.logins = 1
    /\ Len(Obs.h.trace) = 1 /\ Obs.h.trace[1].code = "service_unavailable"

\* C7: the i-th backoff sleep of a call (after failed attempt index i - 1)
\* lasts min(retryDelayMax, retryDelayBase * backoffMultiplier^(i - 1)), so
\* never more than retryDelayMax; with the defaults the first three sleeps
\* are 1000, 2000 and 4000 ms.
C7_BackoffDelays ==
    LET sleeps == Obs.h.sleeps
    IN  /\ \A i \in 1..Len(sleeps) :
             /\ sleeps[i] = Min(httpConfig.retryDelayMax,
                                httpConfig.retryDelayBase *
                                  httpConfig.backoffMultiplier ^ (i - 1))
             /\ sleeps[i] <= httpConfig.retryDelayMax
        /\ (httpConfig.retryDelayBase = 1000 /\ httpConfig.backoffMultiplier = 2 /\
            httpConfig.retryDelayMax = 10000) =>
             \A i \in 1..Min(3, Len(sleeps)) : sleeps[i] = <<1000, 2000, 4000>>[i]

C7_Witness ==
    /\ Obs.h.sleeps = <<1000, 2000, 4000, 8000, 10000>>
    /\ httpConfig.retryDelayMax = 10000

\* C8: every endpoint wrapper call goes through the facade: a session has
\* been ensured before its network attempt (so a client with a password
\* sends auth headers), and a 401 answer triggers the one re-authentication.
C8_WrappersUseFacade ==
    (Obs.op = "endpoint" /\ password # "" /\ Obs.h.attempts >= 1) =>
      /\ Obs.ensure = "true" /\ Obs.hdrs # None
      /\ (Len(Obs.targets) >= 1 /\ ~Obs.targets[1].result.ok /\
          Obs.targets[1].result.error.status = 401) => Obs.reauths = 1

\* C9: a client built without timeout and maxRetries runs every attempt with
\* the 10000 ms timeout, and a retried request with maxRetries 3: at most 4
\* attempts and at least 1.
C9_DocumentedDefaults ==
    (clientConfig.timeout = None /\ clientConfig.maxRetries = None /\
     Obs.op \in {"request", "connect", "endpoint"}) =>
      /\ pc[Observed] = "fetch" => Obs.h.timeout = Some(10000)
      /\ (Obs.ctx = "target" /\ Obs.issued >= 1) =>
            /\ Obs.h.maxAttempts = Some(4)
            /\ Len(Obs.targets) >= 1 => Obs.targets[1].attempts >= 1

\* C10: request() and connect() always resolve to a Result; their promise
\* never rejects, whatever the backend answers to the login.
C10_NeverRejects ==
    Obs.op \in {"request", "connect"} => Obs.settled # "rejected"

\* the observed caller's logout() returns in this step
LogoutReturns ==
    /\ pc[Observed] = "fetch" /\ Obs.ctx = "logout"
    /\ pc'[Observed] = "done"

\* C11: in the step in which a logout() that found a Session returns, the
\* Session becomes absent, whatever the server call returned.
C11_LogoutClears ==
    [][LogoutReturns => state' = None]_vars

C11_Witness ==
    /\ ObsResolved /\ Obs.op = "disconnect" /\ Obs.ctx = "logout"
    /\ Len(Obs.h.trace) = 1 /\ Obs.h.trace[1].code = "server_error"
    /\ ~Obs.result[1].ok /\ state = None

\* C12: a logout() that finds no Session returns true at once with no
\* network call (disconnect() resolves to ok); one that finds a Session sends
\* exactly one DELETE and returns true exactly when that call succeeded or
\* failed with status 401.
C12_LogoutOutcome ==
    /\ [](Obs.op = "disconnect" =>
          /\ Obs.ctx = "none" =>
                /\ ObsResolved /\ Obs.result[1].ok
                /\ Obs.h.attempts = 0 /\ Obs.hdrs = None
          /\ Obs.ctx = "logout" =>
                /\ Obs.h.attempts = 1 /\ Obs.hdrs # None
                /\ ObsDone =>
                      /\ Obs.settled = "resolved" /\ Len(Obs.h.trace) = 1
                      /\ Obs.result[1].ok <=>
                            (Obs.h.trace[1].ok \/ Obs.h.trace[1].status = 401))
    /\ [][DisconnectCall(Observed) =>
            (Obs'.ctx = "logout" <=> state # None)]_vars

C12_Witness ==
    /\ ObsResolved /\ Obs.op = "disconnect" /\ Obs.ctx = "logout"
    /\ Obs.h.trace[1].status = 401 /\ Obs.result[1].ok

\* C13: when ensureSession() resolved to false inside request(), the call
\* has returned a failure of kind Unauthorized (status 401) and no request
\* for the path was issued.
C13_NoSessionNoRequest ==
    (Obs.op = "request" /\ Obs.ensure = "false") =>
      /\ ObsResolved
      /\ ~Obs.result[1].ok
      /\ Obs.result[1].error.code = "unauthorized"
      /\ Obs.result[1].error.status = 401
      /\ Obs.issued = 0 /\ Obs.targets = <<>> /\ Obs.ctx # "target"

C13_Witness ==
    /\ ObsResolved /\ Obs.op = "request" /\ Obs.ensure = "false"
    /\ Obs.logins = 1 /\ Obs.h.trace[1].code = "service_unavailable"
    /\ Obs.result[1].error.code = "unauthorized" /\ Obs.issued = 0

\* a fully populated Session: identifier and token non-empty strings, flag
\* clear, expiry a positive time
Populated(st) ==
    /\ st # None
    /\ Truthy(st[1].sid) /\ Truthy(st[1].csrf)
    /\ ~st[1].totpRequired
    /\ st[1].expiresAt > 0

\* C14: the Session is absent, fully populated, or the two-factor-required
\* value (identifier and token empty, expiry in the past, flag set); never a
\* mix, whatever session object the backend returns on login.
C14_SessionShape ==
    \/ state = None
    \/ Populated(state)
    \/ /\ state # None
       /\ state[1].sid = "" /\ state[1].csrf = ""
       /\ state[1].totpRequired /\ state[1].expiresAt <= now

\* the observed caller's authenticate() returns in this step, its login call
\* having returned the failure recorded in the trace
LoginFailed ==
    /\ pc[Observed] = "fetch" /\ Obs.ctx \in LoginContexts
    /\ pc'[Observed] = "done"
    /\ Len(Obs'.h.trace) = 1 /\ ~Obs'.h.trace[1].ok

\* C15: in the step in which authenticate() returns after its login call
\* failed with a kind other than TotpRequired, the Session becomes absent,
\* whatever it was before.
C15_FailedLoginClears ==
    [][(LoginFailed /\ Obs'.h.trace[1].code # "totp_required") =>
          state' = None]_vars

\* the observed caller's authenticate() returns true in this step: its login
\* call returned a session object (installed, validity) and nothing was
\* thrown
LoginSucceeded ==
    /\ pc[Observed] = "fetch" /\ Obs.ctx \in LoginContexts
    /\ pc'[Observed] # "fetch"
    /\ Obs'.installed # None /\ Obs'.validity # None
    /\ Obs'.settled # "rejected"

\* C16: in the step in which authenticate() succeeds with a backend session
\* (sid s, csrf c, validity V > 0), the Session is replaced wholesale:
\* hasSession() is true, isTotpRequired() is false, getAuthHeaders() is
\* exactly {s, c}, and the expiry is the time of the response plus V * 1000.
C16_LoginInstallsSession ==
    [][(LoginSucceeded /\ Obs'.validity[1] > 0) =>
          /\ state' # None
          /\ state'[1] = [sid |-> Obs'.installed[1].sid,
                          csrf |-> Obs'.installed[1].csrf,
                          expiresAt |-> now + Obs'.validity[1] * 1000,
                          totpRequired |-> FALSE]
          /\ hasSession(state', now') /\ ~isTotpRequired(state')
          /\ getAuthHeaders(state') = Obs'.installed]_vars

C16_Witness ==
    /\ ObsResolved /\ Obs.op = "connect" /\ Obs.result[1].ok
    /\ Obs.installed = Some([sid |-> "s1", csrf |-> "c1"])
    /\ Obs.validity = Some(120)
    /\ state = Some([sid |-> "s1", csrf |-> "c1", expiresAt |-> now + 120000,
                     totpRequired |-> FALSE])

\* what the authenticate() of the observed caller returned to the operation
\* that called it, read after the step
ReturnedFalse ==
    /\ Obs'.settled # "rejected"
    /\ Obs.ctx = "ensure" => Obs'.ensure = "false"
    /\ Obs.ctx = "reauth" => Obs'.reauth = "false"
    /\ Obs.ctx = "login" => Obs'.settled = "resolved" /\ ~Obs'.result[1].ok

\* C17: when the login call fails with the backend key totp_required,
\* authenticate() returns false and leaves isTotpRequired() true and
\* hasSession() false; a later successful authenticate() leaves
\* isTotpRequired() false.
C17_TotpRequired ==
    /\ [][(LoginFailed /\ Obs'.h.trace[1].code = "totp_required") =>
            /\ ReturnedFalse
            /\ isTotpRequired(state') /\ ~hasSession(state', now')]_vars
    /\ [][LoginSucceeded => ~isTotpRequired(state')]_vars

C17_Witness ==
    /\ ObsResolved /\ Obs.op = "connect" /\ Len(Obs.h.trace) = 1
    /\ Obs.h.trace[1].code = "totp_required"
    /\ Obs.result[1].error.code = "totp_required"
    /\ isTotpRequired(state) /\ ~hasSession(state, now)

\* C18: needsRefresh() is true exactly when auto-refresh is enabled, a
\* Session exists and now >= expiry - refreshThreshold * 1000.
C18_NeedsRefresh ==
    /\ needsRefresh(state, sessConfig, now) <=>
          /\ sessConfig.autoRefresh
          /\ state # None
          /\ now + sessConfig.refreshThreshold * 1000 >= state[1].expiresAt
    /\ ~sessConfig.autoRefresh => ~needsRefresh(state, sessConfig, now)
    /\ state = None => ~needsRefresh(state, sessConfig, now)

\* a session inside its refresh window, not yet expired
C18_Witness ==
    /\ state # None /\ Truthy(state[1].sid) /\ sessConfig.autoRefresh
    /\ now < state[1].expiresAt
    /\ now >= state[1].expiresAt - 60000
    /\ needsRefresh(state, sessConfig, now) /\ hasSession(state, now)

\* the Session is usable as it is: present, not expired, and not within
\* refreshThreshold of its expiry when auto-refresh is enabled
Usable ==
    /\ state # None
    /\ now < state[1].expiresAt
    /\ sessConfig.autoRefresh =>
          now < state[1].expiresAt - sessConfig.refreshThreshold * 1000

\* a populated Session within refreshThreshold of its expiry, as it is at
\* any time after a login with validity V <= refreshThreshold
ShortLived ==
    /\ Populated(state)
    /\ state[1].expiresAt <= now + sessConfig.refreshThreshold * 1000

\* C19: a successful login with validity V > refreshThreshold leaves
\* needsRefresh() false, and an ensureSession() called then returns true
\* without sending a login; when V <= refreshThreshold and auto-refresh is
\* enabled, every ensureSession() has a login made for it: it sends one, or
\* awaits the one in flight.
C19_RefreshByValidity ==
    /\ [][(LoginSucceeded /\ Obs'.validity[1] > sessConfig.refreshThreshold) =>
            ~needsRefresh(state', sessConfig, now')]_vars
    /\ [][(RequestCall(Observed) /\ Populated(state) /\
           state[1].expiresAt > now + sessConfig.refreshThreshold * 1000) =>
            Obs'.ensure = "true" /\ Obs'.logins = 0]_vars
    /\ [][(RequestCall(Observed) /\ ShortLived /\ sessConfig.autoRefresh) =>
            \/ pc'[Observed] = "fetch" /\ Obs'.ctx = "ensure" /\ Obs'.logins = 1
            \/ /\ pc'[Observed] = "join"
               /\ pc'[Obs'.owner] = "fetch" /\ call'[Obs'.owner].ctx = "ensure"]_vars

\* C20: an ensureSession() called while hasSession() is true and
\* needsRefresh() is false returns true, sends no login, and leaves the
\* Session and the pending-authentication marker unchanged; request() goes on
\* to its first request.
C20_FastPath ==
    [][(RequestCall(Observed) /\ Usable) =>
          /\ Obs'.ensure = "true" /\ Obs'.logins = 0
          /\ Obs'.ctx = "target" /\ Obs'.issued = 1
          /\ state' = state /\ refreshPromise' = refreshPromise]_vars

C20_Witness ==
    /\ Obs.op = "request" /\ Obs.ensure = "true" /\ Obs.logins = 0
    /\ pc[Observed] = "fetch" /\ Obs.ctx = "target" /\ Obs.issued = 1
    /\ Usable /\ Obs.hdrs = getAuthHeaders(state)
    /\ ~sessConfig.autoRefresh
    /\ now >= state[1].expiresAt - sessConfig.refreshThreshold * 1000

\* C21: on a client whose base URL is empty or was never configured, every
\* call of HttpClient.request has returned a failure of kind BadRequest with
\* status 0 without any network attempt or backoff sleep, for every
\* descriptor and retry configuration.
C21_NoBaseUrl ==
    (Obs.op = "direct" /\ httpConfig.baseUrl = "") =>
      /\ ObsResolved
      /\ ~Obs.result[1].ok
      /\ Obs.result[1].error.code = "bad_request"
      /\ Obs.result[1].error.status = 0
      /\ Obs.h.attempts = 0 /\ Obs.h.trace = <<>> /\ Obs.h.sleeps = <<>>

C21_Witness ==
    /\ ObsResolved /\ Obs.op = "direct" /\ httpConfig.baseUrl = ""
    /\ httpConfig.maxRetries = Some(MaxRetriesCfg) /\ ~Obs.h.noRetry
    /\ Obs.result[1].error.code = "bad_request" /\ Obs.h.attempts = 0

\* C22: when every attempt of a call without noRetry failed with a
\* retryable kind, the call has made exactly maxRetries + 1 attempts and
\* returns the failure of the last one: its kind, message and status.
C22_LastFailureReturned ==
    (Obs.op = "direct" /\ ObsDone /\ ~Obs.h.noRetry /\
     httpConfig.baseUrl # "" /\ httpConfig.maxRetries # None /\
     \A i \in 1..Len(Obs.h.trace) :
        ~Obs.h.trace[i].ok /\ Obs.h.trace[i].code \in RetryableKinds) =>
      LET m == httpConfig.maxRetries[1]
          last == Obs.h.trace[m + 1]
      IN  /\ Len(Obs.h.trace) = m + 1 /\ Obs.h.attempts = m + 1
          /\ Obs.settled = "resolved" /\ ~Obs.result[1].ok
          /\ Obs.result[1].error.code = last.code
          /\ Obs.result[1].error.message = last.message
          /\ Obs.result[1].error.status = last.status

C22_Witness ==
    /\ ObsResolved /\ Obs.op = "direct" /\ ~Obs.h.noRetry
    /\ httpConfig.maxRetries = Some(2) /\ Len(Obs.h.trace) = 3
    /\ Obs.h.trace[1].code = "service_unavailable"
    /\ Obs.h.trace[2].code = "server_error"
    /\ Obs.h.trace[3].code = "timeout"
    /\ Obs.result[1].error.code = "timeout"
    /\ Obs.result[1].error.message = <<"Request timed out">>

\* the kinds isAuthError is specified to accept
AuthKinds == {"unauthorized", "session_expired", "totp_required"}

\* the request of the observed request() call returns in this step; Last' is
\* what it returned
TargetReturns ==
    /\ Obs.op = "request" /\ pc[Observed] = "fetch" /\ Obs.ctx = "target"
    /\ Len(Obs'.targets) = Len(Obs.targets) + 1

Last == Obs.targets[Len(Obs.targets)].result

\* C23: whenever the first request of a request() call failed with a kind
\* that satisfies isAuthError, handleUnauthorized has been called, whatever
\* the HTTP status of the failure.
C23_AuthKindsReauthenticate ==
    (Obs.op = "request" /\ Len(Obs.targets) >= 1 /\
     ~Obs.targets[1].result.ok /\
     Obs.targets[1].result.error.code \in AuthKinds) =>
      Obs.reauths = 1

\* C24: a request of request() that failed with status 403 is classified
\* Unauthorized and ends the call: no re-authentication follows it, no
\* further request is sent, the Session and the pending marker are left as
\* they were, and the call returns that failure unchanged.
C24_ForbiddenNotRecovered ==
    /\ []((Obs.op = "request" /\ Len(Obs.targets) >= 1 /\ ~Last.ok /\
           Last.error.status = 403) =>
            /\ Last.error.code = "unauthorized"
            /\ ObsResolved /\ Obs.result = Some(Last)
            /\ Obs.issued = Len(Obs.targets)
            /\ Obs.reauths = Obs.issued - 1
            /\ Obs.logins <= Obs.issued)
    /\ [][(TargetReturns /\ ~Last'.ok /\ Last'.error.status = 403) =>
            /\ state' = state /\ refreshPromise' = refreshPromise
            /\ pc'[Observed] = "done"]_vars

C24_Witness ==
    /\ ObsResolved /\ Obs.op = "request" /\ Len(Obs.targets) = 1
    /\ Last.error.status = 403 /\ Last.error.code = "unauthorized"
    /\ Obs.reauths = 0 /\ Obs.issued = 1 /\ Obs.result = Some(Last)
    /\ state # None /\ Obs.hdrs = getAuthHeaders(state)

\* the handleUnauthorized() of the observed request() call returns false in
\* this step
ReauthFails ==
    /\ Obs.op = "request" /\ pc[Observed] = "fetch"
    /\ Obs.reauth = "none" /\ Obs'.reauth = "false"

\* C25: in the step in which the re-authentication after a 401 returns
\* false, request() returns the original 401 failure and leaves no usable
\* Session: it is absent (or, when the re-login was answered totp_required,
\* the two-factor-required value).
C25_Unrecovered401 ==
    [][ReauthFails =>
          /\ pc'[Observed] = "done" /\ Obs'.settled = "resolved"
          /\ Obs'.result = Some(Obs'.targets[1].result)
          /\ Obs'.targets[1].result.error.status = 401
          /\ state' = None \/ state' = TotpState]_vars

\* the status mapping as specified
FromStatus(status) ==
    CASE status = 400 -> "bad_request"
      [] status \in {401, 403} -> "unauthorized"
      [] status = 404 -> "not_found"
      [] status = 409 -> "conflict"
      [] status = 422 -> "validation_error"
      [] status = 500 -> "server_error"
      [] status \in {502, 503, 504} -> "service_unavailable"
      [] status \in 400..499 -> "bad_request"
      [] status \in 500..599 -> "server_error"

\* the key mapping as specified
FromApiKey(key) ==
    CASE key \in {"unauthorized", "auth_failed"} -> "unauthorized"
      [] key = "totp_required" -> "totp_required"
      [] key = "bad_totp" -> "invalid_totp"
      [] key = "session_expired" -> "session_expired"
      [] key = "not_found" -> "not_found"
      [] key = "conflict" -> "conflict"
      [] key = "bad_request" -> "bad_request"
      [] OTHER -> "unknown"

\* C26: every attempt answered by a non-success HTTP response (4xx, 5xx)
\* yields the kind fromApiKey(key) when the error body carries a key and
\* fromStatus(status) otherwise, and the error's status is the response's.
C26_Classification ==
    \A i \in 1..Len(Obs.h.trace) :
        LET o == Obs.h.trace[i]
        IN  (~o.thrown /\ o.response \in 400..599) =>
              /\ ~o.ok
              /\ o.code = IF o.apiKey # "" THEN FromApiKey(o.apiKey)
                          ELSE FromStatus(o.response)
              /\ o.status = o.response

\* a key taking precedence over the status of its response
C26_Witness ==
    /\ ObsDone /\ Obs.op = "test" /\ Len(Obs.h.trace) = 1
    /\ Obs.h.trace[1].response = 500 /\ Obs.h.trace[1].apiKey = "bad_request"
    /\ Obs.h.trace[1].code = "bad_request" /\ Obs.h.trace[1].status = 500
    /\ Obs.result[1].error.code = "bad_request"

\* C27: for the Result r held and all functions passed: exactly one of
\* isOk(r), isErr(r); andThen applies f to a success and passes a failure
\* through; map wraps f(v) for a success and passes a failure through;
\* mapErr passes a success through and wraps g(e) for a failure; unwrapOr
\* gives the value of a success and the default for a failure.
C27_ResultLaws ==
    (Obs.op = "chain") =>
      LET r == Held
      IN  /\ isOk(r) # isErr(r)
          /\ isOk(r) =>
                /\ r = ok(r.data)
                /\ \A n \in ChainFns :
                     andThen(r, n) = ChainFn(n, r.data)
                /\ \A n \in ValueFns :
                     map(r, n) = ok(ValueFn(n, r.data))
                /\ \A n \in ErrorFns :
                     mapErr(r, n) = r
                /\ \A d \in Defaults : unwrapOr(r, d) = r.data
          /\ isErr(r) =>
                /\ r = err(r.error)
                /\ \A n \in ChainFns :
                     andThen(r, n) = r
                /\ \A n \in ValueFns :
                     map(r, n) = r
                /\ \A n \in ErrorFns :
                     mapErr(r, n) = err(ErrorFn(n, r.error))
                /\ \A d \in Defaults : unwrapOr(r, d) = d

\* a failure that went through map and andThen unchanged and was wrapped by
\* mapErr
C27_Witness ==
    /\ Obs.op = "chain" /\ calls = MaxCalls
    /\ isErr(Held) /\ Held.error.hint = "wrapped"
    /\ Held.error.code = "not_found"

\* caller t is inside the login its ensureSession() started
EnsureLoginInFlight(p, c) == p \in {"fetch", "sleep"} /\ c.ctx = "ensure"

\* C28: once the authenticate() started by an ensureSession() has settled,
\* the pending marker holds neither that attempt nor its settled promise, so
\* the next ensureSession() that needs authentication starts a new login.
C28_MarkerClearedOnceSettled ==
    [][\A t \in Tasks :
          (/\ EnsureLoginInFlight(pc[t], call[t])
           /\ ~EnsureLoginInFlight(pc'[t], call'[t]))
          => refreshPromise' \notin {t, RejectedPromise}]_vars

\* caller t is inside a login (of ensureSession, handleUnauthorized or connect)
LoginInFlight(t) == pc[t] \in {"fetch", "sleep"} /\ call[t].ctx \in LoginContexts

\* The login of u's ensureSession() is in flight and the marker it set is
\* gone: only clear() removes it, so logout() has resolved since the login
\* started; the state is still cleared and no other login is in flight, so
\* no authentication was started after that logout.
LoggedOutDuringLogin(u) ==
    /\ LoginInFlight(u) /\ call[u].ctx = "ensure"
    /\ refreshPromise = NoPromise
    /\ state = None
    /\ \A v \in Tasks \ {u} : ~LoginInFlight(v)

\* C29: after logout() has resolved, hasSession() stays false and
\* getAuthHeaders() stays absent until an authentication is started after
\* it: a login already in flight when logout() ran installs no Session when
\* it is answered.
C29_StaleLoginInstallsNothing ==
    [][\A u \in Tasks :
          (LoggedOutDuringLogin(u) /\ LoginAnswered(u))
          => (~hasSession(state', now') /\ getAuthHeaders(state') = None)]_vars

\* The login of t's ensureSession() is in flight although the state holds a
\* Session that needs no refresh: ensureSession() starts a login only without
\* such a Session, so another login wrote it while this one was in flight.
OvertakenLogin(t) ==
    /\ LoginInFlight(t) /\ call[t].ctx = "ensure"
    /\ hasSession(state, now) /\ ~needsRefresh(state, sessConfig, now)

\* C30: the writes of the Session are serialized through the pending
\* attempt: of two logins in flight together at most one writes the Session,
\* so a login overtaken by another login's write leaves the Session as it is.
C30_OneLoginWrites ==
    [][\A t \in Tasks :
          (OvertakenLogin(t) /\ LoginAnswered(t)) => state' = state]_vars

\* C31: within one call of HttpClient.request there is one backoff sleep for
\* each failed attempt that another attempt follows and no other: while an
\* attempt is in flight every earlier attempt was slept after; during a sleep
\* every attempt made was and a further attempt is allowed; once the call has returned every attempt but the
\* last was, and the last was a success, a non-retryable failure or the last
\* attempt allowed.  Attempts slept after failed with a retryable kind.  With
\* the defaults and maxRetries 3 the answers 503, 503, 503, 200 sleep 1000,
\* 2000 and 4000 ms in that order.
C31_SleepsBetweenAttempts ==
    LET trace == Obs.h.trace
        sleeps == Obs.h.sleeps
        n == Len(trace)
    IN  (Obs.op = "direct") =>
          /\ pc[Observed] = "fetch" =>
                Len(sleeps) = n /\ Obs.h.attempts = n + 1
          /\ pc[Observed] = "sleep" =>
                /\ Len(sleeps) = n /\ Obs.h.attempts = n
                /\ ~Obs.h.noRetry /\ httpConfig.maxRetries # None
                /\ n <= httpConfig.maxRetries[1]
          /\ ObsDone =>
                /\ Len(sleeps) = (IF n = 0 THEN 0 ELSE n - 1)
                /\ Obs.h.attempts = n
                /\ n > 0 =>
                     \/ trace[n].ok
                     \/ trace[n].code \notin RetryableKinds
                     \/ Obs.h.noRetry /\ n = 1
                     \/ httpConfig.maxRetries = Some(n - 1)
          /\ \A i \in 1..Len(sleeps) :
                ~trace[i].ok /\ trace[i].code \in RetryableKinds
          /\ (/\ ObsDone /\ ~Obs.h.noRetry /\ httpConfig.maxRetries = Some(3)
              /\ httpConfig.retryDelayBase = 1000
              /\ httpConfig.backoffMultiplier = 2
              /\ httpConfig.retryDelayMax = 10000
              /\ n = 4 /\ trace[4].ok
              /\ \A i \in 1..3 : ~trace[i].thrown /\ trace[i].response = 503)
             => sleeps = <<1000, 2000, 4000>>

\* 503, 503, 503, 200 with maxRetries 3: three sleeps, none after the success
C31_Witness ==
    /\ ObsResolved /\ Obs.op = "direct" /\ ~Obs.h.noRetry
    /\ httpConfig.maxRetries = Some(3) /\ httpConfig.retryDelayMax = 10000
    /\ httpConfig.retryDelayBase = 1000
    /\ Len(Obs.h.trace) = 4 /\ Obs.h.trace[4].ok /\ Obs.result[1].ok
    /\ \A i \in 1..3 : Obs.h.trace[i].response = 503 /\ Obs.h.trace[i].apiKey = ""
    /\ Obs.h.sleeps = <<1000, 2000, 4000>>

\* the failure returned when the loop of HttpClient.request ends with no
\* error recorded
IsFallback(result) ==
    /\ ~result.ok
    /\ result.error.code = "unknown"
    /\ result.error.message = <<"Request failed">>
    /\ result.error.status = 0

\* C32: with a base URL configured every http.request that has returned made
\* at least one network attempt and did not return the fallback failure
\* (Unknown, "Request failed", 0), whatever maxRetries the client was given.
C32_AtLeastOneAttempt ==
    (httpConfig.baseUrl # "") =>
      \A i \in 1..Len(Obs.targets) :
          /\ Obs.targets[i].attempts >= 1
          /\ ~IsFallback(Obs.targets[i].result)

\* the observed caller's ensureSession() has to authenticate: no Session
\* that is valid without refresh, and no attempt pending
MustAuthenticate ==
    /\ ~(hasSession(state, now) /\ ~needsRefresh(state, sessConfig, now))
    /\ refreshPromise = NoPromise

\* C33: with no credential configured authenticate() returns false without a
\* network call and leaves the Session and the two-factor flag as they were
\* when it was called: in connect(), in ensureSession(), and in
\* handleUnauthorized() (which has dropped the state before calling it).
C33_NoCredentialNoLogin ==
    [][(password = "") =>
         /\ ConnectCall(Observed) =>
               /\ state' = state
               /\ pc'[Observed] = "done" /\ Obs'.settled = "resolved"
               /\ ~Obs'.result[1].ok
               /\ Obs'.logins = 0 /\ Obs'.h.attempts = 0
         /\ (MustAuthenticate /\ RequestCall(Observed)) =>
               /\ state' = state
               /\ pc'[Observed] = "done" /\ Obs'.ensure = "false"
               /\ Obs'.logins = 0 /\ Obs'.h.attempts = 0 /\ Obs'.issued = 0
         /\ (TargetAnswered(Observed) /\ Obs'.reauths = 1) =>
               /\ state' = None
               /\ pc'[Observed] = "done" /\ Obs'.reauth = "false"
               /\ Obs'.logins = 0 /\ Obs'.issued = 1]_vars

\* connect() on a client built from a sid/csrf pair without a password: it
\* failed, no login was sent, and the Session is still the one configured
C33_Witness ==
    /\ password = "" /\ ObsResolved /\ Obs.op = "connect"
    /\ ~Obs.result[1].ok /\ Obs.logins = 0
    /\ state = SessionInitial(clientConfig, 0) /\ hasSession(state, now)
    /\ ~isTotpRequired(state)

\* C34: a request issued through PiholeClient.request() or an endpoint
\* wrapper, whose method may be POST (the method plays no part in the retry
\* loop), is sent at most once per http.request: it is not sent again after
\* a Timeout, NetworkError or 5xx failure.
C34_SentAtMostOnce ==
    (Obs.op \in {"request", "endpoint"}) =>
      /\ Obs.ctx = "target" => Obs.h.attempts <= 1
      /\ \A i \in 1..Len(Obs.targets) : Obs.targets[i].attempts <= 1

\* C35: connect() returns a failure of kind TotpRequired exactly when the
\* login attempt made by that very call failed with TotpRequired.
C35_TotpFromOwnLogin ==
    (ObsResolved /\ Obs.op = "connect") =>
      LET trace == Obs.h.trace
          returnsTotp == ~Obs.result[1].ok /\
                         Obs.result[1].error.code = "totp_required"
          loginFailedTotp == Len(trace) = 1 /\ ~trace[1].ok /\
                             trace[1].code = "totp_required"
      IN  returnsTotp <=> loginFailedTotp

\* C36: an attempt answered 204 is a success with an empty value, whatever
\* the body; an attempt answered another 2xx status with a body that is not
\* valid JSON is a failure of kind ParseError carrying that status, and the
\* call returns it at once: it is the last attempt, no sleep follows it.
C36_SuccessBodies ==
    LET trace == Obs.h.trace
        n == Len(trace)
    IN  \A i \in 1..n :
          LET o == trace[i]
          IN  /\ (~o.thrown /\ o.response = 204) =>
                    /\ o.ok /\ i = n
                    /\ (ObsResolved /\ Obs.op = "direct") =>
                          Obs.result[1] = ok(Undefined)
              /\ (~o.thrown /\ o.response \in 200..299 /\ o.response # 204
                  /\ o.json # "object") =>
                    /\ ~o.ok /\ o.code = "parse_error" /\ o.status = o.response
                    /\ o.message = <<"Failed to parse response">>
                    /\ i = n /\ pc[Observed] # "sleep"
                    /\ Len(Obs.h.sleeps) < n
                    /\ Obs.h.attempts = n
                    /\ Obs.op = "direct" =>
                          /\ ObsResolved /\ ~Obs.result[1].ok
                          /\ Obs.result[1].error.code = "parse_error"
                          /\ Obs.result[1].error.status = o.response

\* a 201 whose body is not JSON, on a client allowed 3 retries: one attempt
C36_Witness ==
    /\ ObsResolved /\ Obs.op = "direct" /\ ~Obs.h.noRetry
    /\ httpConfig.maxRetries = Some(3)
    /\ Len(Obs.h.trace) = 1 /\ Obs.h.trace[1].response = 201
    /\ Obs.h.trace[1].code = "parse_error" /\ Obs.h.trace[1].status = 201
    /\ Obs.h.attempts = 1 /\ Obs.h.sleeps = <<>>

\* a 204 whose body is JSON, after a retried failure: success, empty value
C36_Witness204 ==
    /\ ObsResolved /\ Obs.op = "direct" /\ Len(Obs.h.trace) = 2
    /\ Obs.h.trace[2].response = 204 /\ Obs.h.trace[2].json = "object"
    /\ Obs.result[1] = ok(Undefined)

\* the attempt in flight of the observed caller's first facade request is
\* answered with status 401
FirstRequestAnswered401 ==
    /\ Obs.op = "request" /\ Obs.ctx = "target" /\ Obs.issued = 1
    /\ TargetAnswered(Observed)
    /\ Len(Obs'.h.trace) = Len(Obs.h.trace) + 1
    /\ Obs'.h.trace[Len(Obs'.h.trace)].response = 401

\* C37: no kind is both retryable and an authentication kind; an attempt
\* answered with status 401 is the last of its http.request and no sleep
\* follows it; and in PiholeClient.request() the 401 answer to the first
\* request ends that request in the same step, with no further attempt, and
\* handleUnauthorized() is called.
C37_Unauthorized401NotRetried ==
    /\ [](LET trace == Obs.h.trace
              n == Len(trace)
          IN  /\ \A k \in PiholeErrorCode : ~(isRetryable(k) /\ isAuthError(k))
              /\ \A i \in 1..n :
                   (~trace[i].thrown /\ trace[i].response = 401) =>
                      /\ i = n /\ pc[Observed] # "sleep"
                      /\ Len(Obs.h.sleeps) < n /\ Obs.h.attempts = n)
    /\ [][FirstRequestAnswered401 =>
            /\ Len(Obs'.targets) = 1
            /\ Obs'.targets[1].attempts = Obs.h.attempts
            /\ Obs'.targets[1].result.error.status = 401
            /\ Obs'.reauths = 1]_vars

\* on a client allowed a retry, the first request was answered 401 after one
\* attempt, the login of handleUnauthorized() succeeded and the request was
\* sent again
C37_Witness ==
    /\ httpConfig.maxRetries = Some(1)
    /\ Obs.op = "request" /\ Len(Obs.targets) = 2
    /\ Obs.targets[1].result.error.status = 401
    /\ Obs.targets[1].attempts = 1
    /\ Obs.reauths = 1 /\ Obs.reauth = "true"

\* the observed caller is inside a call of PiholeClient.request()
InRequest == Obs.op = "request" /\ pc[Observed] \in {"fetch", "sleep", "join"}

\* C38: a call of PiholeClient.request() returns (or rejects), given that
\* every network attempt is answered; it sends at most 2 logins and at most
\* 2 target requests, each of at most maxRetries + 1 attempts.
C38_RequestTerminates ==
    /\ [](Obs.op = "request" =>
            /\ Obs.logins <= 2 /\ Obs.issued <= 2 /\ Len(Obs.targets) <= 2
            /\ httpConfig.maxRetries # None =>
                 /\ Obs.h.attempts <= httpConfig.maxRetries[1] + 1
                 /\ \A i \in 1..Len(Obs.targets) :
                      Obs.targets[i].attempts <= httpConfig.maxRetries[1] + 1
            /\ httpConfig.maxRetries = None =>
                 \A i \in 1..Len(Obs.targets) : Obs.targets[i].attempts = 0)
    /\ (InRequest ~> pc[Observed] = "done")

\* a backend that answers 401 to everything but the logins: 2 logins, 2
\* requests, and the call has returned the second 401
C38_Witness ==
    /\ ObsResolved /\ Obs.op = "request"
    /\ Obs.logins = 2 /\ Len(Obs.targets) = 2
    /\ Obs.targets[1].result.error.status = 401
    /\ Obs.targets[2].result.error.status = 401
    /\ ~Obs.result[1].ok /\ Obs.result[1].error.status = 401

\* the step in which the observed caller's ensureSession() resolves to true
EnsureResolvesTrue ==
    /\ Obs'.op = "request" /\ Obs'.ensure = "true"
    /\ ~(Obs.op = "request" /\ Obs.ensure = "true" /\ pc[Observed] # "done")

\* C39: when ensureSession() resolves to true, hasSession() is true and
\* getAuthHeaders() returns two non-empty header values, for a caller that
\* sent the login, one that shared a pending attempt and one on the fast
\* path, and for every login response.
C39_TrueMeansSession ==
    [][EnsureResolvesTrue =>
          /\ hasSession(state', now')
          /\ getAuthHeaders(state') # None
          /\ Truthy(getAuthHeaders(state')[1].sid)
          /\ Truthy(getAuthHeaders(state')[1].csrf)]_vars

\* C40: when hasSession() is true as PiholeClient.request() is called, the
\* call does not return the facade's own "Not authenticated" failure with no
\* request sent, also inside the refresh window and on a client built from
\* a sid/csrf pair without a password.
C40_SessionMeansSent ==
    [][(hasSession(state, now) /\ RequestCall(Observed)) =>
          ~(/\ pc'[Observed] = "done" /\ Obs'.settled = "resolved"
            /\ Obs'.result = Some(NotAuthenticated) /\ Obs'.issued = 0)]_vars

====
